---- MODULE Spec2Model ----
(***************************************************************************)
(* fxa-auth-server: the TOTP routes (lib/routes/totp.js), the Hawk         *)
(* credential resolver of the server (makeCredentialFn) and the OAuth      *)
(* assertion minter (lib/routes/utils/oauth-mint.js).                       *)
(*                                                                         *)
(* Every request is a promise chain.  One action of the model is one link  *)
(* of a chain: the store call it makes takes effect atomically and the     *)
(* link's continuation runs on the call's result.  Requests of different   *)
(* processes interleave between links.                                     *)
(***************************************************************************)
EXTENDS Integers, FiniteSets, Sequences, TLC

VARIABLES
  totp,        \* the TOTP table of the store: uid -> row or Absent
  sessions,    \* the session table: session id -> [uid, tokenVerificationId, method]
  now,         \* Date.now(), in ticks
  started,     \* number of requests begun so far
  req,         \* per process: the request in flight, its locals and its reply
  tokens,      \* the bearer-token table the resolver reads: id -> row or Absent
  res,         \* the resolve call in flight and what the callback received
  pruned,      \* the ids of the tokens a prune has removed
  seen,        \* the values the callback received for rejected ids so far
  mint         \* the getOAuthToken call in flight

vars == <<totp, sessions, now, started, req, tokens, res, pruned, seen, mint>>

----------------------------------------------------------------------------
(* Bounds *)

MaxRequests == 3
MaxTime == 3
NumSecrets == 2
CodeSpace == 3

(* config.step, in ticks *)
Step == 2

(* two requests may be in flight at once *)
Procs == {1, 2}
Secrets == 1 .. NumSecrets
Codes == 0 .. (CodeSpace - 1)
Uids == {"u1"}
Sessions == {"s1", "s2"}
Ops == {"create", "destroy", "exists", "verify"}

Absent == [present |-> FALSE]

----------------------------------------------------------------------------
(* otplib.authenticator with options {encoding: 'hex', step: config.step}  *)

(* the counter of the time window that holds instant t *)
Counter(t) == t \div Step

(* authenticator.generate: the code of a secret in the window of t *)
Generate(secret, t) == (secret + Counter(t)) % CodeSpace

(* authenticator.check(code, secret): window 0, the current counter only *)
Check(code, secret, t) == code = Generate(secret, t)

----------------------------------------------------------------------------
(* The Token Store, as far as the TOTP routes use it.                      *)

(* db.createTotpToken(uid, secret, 0): a row with both flags false *)
NewTotpRow(secret) ==
  [present |-> TRUE, sharedSecret |-> secret, verified |-> FALSE,
   enabled |-> FALSE, epoch |-> 0]

(* the outcomes of db.createTotpToken on the table t *)
DbCreateTotpToken(t, uid, secret) ==
  IF t[uid].present
    THEN {[err |-> "totpTokenAlreadyExists", table |-> t]}
    ELSE {[err |-> "none", table |-> [t EXCEPT ![uid] = NewTotpRow(secret)]],
          [err |-> "upstream", table |-> t]}

(* the outcomes of db.deleteTotpToken: the store may signal not-found *)
DbDeleteTotpToken(t, uid) ==
  IF t[uid].present
    THEN {[err |-> "none", table |-> [t EXCEPT ![uid] = Absent]],
          [err |-> "upstream", table |-> t]}
    ELSE {[err |-> "none", table |-> t],
          [err |-> "totpTokenNotFound", table |-> t],
          [err |-> "upstream", table |-> t]}

(* the outcomes of db.totpToken(uid) *)
DbTotpToken(t, uid) ==
  IF t[uid].present
    THEN {[err |-> "none", token |-> t[uid]],
          [err |-> "upstream", token |-> Absent]}
    ELSE {[err |-> "totpTokenNotFound", token |-> Absent],
          [err |-> "upstream", token |-> Absent]}

(* the outcomes of db.updateTotpToken(uid, flags): one atomic row update *)
DbUpdateTotpToken(t, uid, flags) ==
  IF t[uid].present
    THEN {[err |-> "none",
           table |-> [t EXCEPT ![uid].verified = flags.verified,
                               ![uid].enabled = flags.enabled]],
          [err |-> "upstream", table |-> t]}
    ELSE {[err |-> "totpTokenNotFound", table |-> t],
          [err |-> "upstream", table |-> t]}

(* the outcomes of db.verifyTokensWithMethod(sessionId, method) *)
DbVerifyTokensWithMethod(s, id, method) ==
  {[err |-> "none",
    table |-> [s EXCEPT ![id].tokenVerificationId = FALSE,
                        ![id].method = method]],
   [err |-> "upstream", table |-> s]}

----------------------------------------------------------------------------
(* Requests *)

NoReply ==
  [kind |-> "none", errno |-> "none", success |-> FALSE, exists |-> FALSE,
   secret |-> 0]

ReplyError(e) == [NoReply EXCEPT !.kind = "error", !.errno = e]
ThrowError(e) == [NoReply EXCEPT !.kind = "thrown", !.errno = e]

Idle ==
  [op |-> "none", pc |-> "idle", session |-> "s1", tokenVerificationId |-> FALSE,
   uid |-> "u1", code |-> 0, secret |-> 0, sharedSecret |-> 0,
   found |-> FALSE, tokenVerified |-> FALSE, checkedAt |-> -1,
   isValidCode |-> FALSE, exists |-> FALSE,
   calls |-> {}, failed |-> "none", events |-> {}, reply |-> NoReply]

(* the first link of each handler's chain *)
FirstPc(op) == IF op = "exists" THEN "getTotpToken" ELSE "customs"

(* the link after a passed customs.check *)
AfterCustoms(op) ==
  CASE op = "create" -> "createTotpToken"
    [] op = "destroy" -> "deleteTotpToken"
    [] OTHER -> "getTotpToken"

(* mutant: the update sets enabled and leaves verified false *)
VerifiedFlags_EnabledOnly == [verified |-> FALSE, enabled |-> TRUE]

(* lines 222-225: the flags verifyTotpToken writes *)
VerifiedFlags == [verified |-> TRUE, enabled |-> TRUE]

Done(r, reply) == [r EXCEPT !.pc = "done", !.reply = reply]

(* mutant: the rejection is caught and the chain goes on with its next link *)
Rejects_Swallowed(r, call, err, next) == [r EXCEPT !.failed = call, !.pc = next]

(* lines 62 and 204, .then(..., reply): the store call of a link rejected; *)
(* every later link is skipped and reply(err) answers the request          *)
Rejects(r, call, err, next) == Done([r EXCEPT !.failed = call], ReplyError(err))

TotpUnchanged == UNCHANGED <<tokens, res, pruned, seen, mint>>

----------------------------------------------------------------------------
Init ==
  /\ totp = [u \in Uids |-> Absent]
  /\ sessions = [s \in Sessions |->
                   [uid |-> "u1", tokenVerificationId |-> (s = "s2"),
                    method |-> "none"]]
  /\ now = 0
  /\ started = 0
  /\ req = [p \in Procs |-> Idle]
  /\ tokens = <<>>
  /\ res = <<>>
  /\ pruned = {}
  /\ seen = {}
  /\ mint = <<>>

(* a handler is entered: request.auth.credentials is the session as the    *)
(* resolver read it; /totp/create draws its secret at once.  Free          *)
(* processes are interchangeable, so the request takes the lowest one.     *)
Start(p) ==
  /\ req[p].pc = "idle"
  /\ \A q \in Procs : q < p => req[q].pc # "idle"
  /\ started < MaxRequests
  /\ \E op \in Ops, s \in Sessions, c \in Codes, sec \in Secrets :
       /\ (op # "verify") => c = 0
       /\ (op # "create") => sec = 1
       /\ req' = [req EXCEPT ![p] =
                    [Idle EXCEPT !.op = op, !.pc = FirstPc(op), !.session = s,
                                 !.uid = sessions[s].uid,
                                 !.tokenVerificationId = sessions[s].tokenVerificationId,
                                 !.code = c,
                                 !.secret = IF op = "create" THEN sec ELSE 0]]
  /\ started' = started + 1
  /\ UNCHANGED <<totp, sessions, now>>
  /\ TotpUnchanged

(* customs.check(request, ...) of create, destroy and verify *)
CustomsCheck(p) ==
  /\ req[p].pc = "customs"
  /\ \E pass \in BOOLEAN :
       req' = [req EXCEPT ![p] =
                 IF pass THEN [@ EXCEPT !.pc = AfterCustoms(req[p].op)]
                         ELSE Done(@, ReplyError("customs"))]
  /\ UNCHANGED <<totp, sessions, now, started>>
  /\ TotpUnchanged

(* mutant: the guard is missing *)
UnverifiedSession_Never(r) == FALSE

(* line 67, 116, 147: if (sessionToken.tokenVerificationId) throw *)
UnverifiedSession(r) == r.tokenVerificationId

Called(r, name) == [r EXCEPT !.calls = @ \cup {name}]

(* /totp/create: createTotpToken *)
CreateTotpToken(p) ==
  /\ req[p].op = "create"
  /\ req[p].pc = "createTotpToken"
  /\ IF UnverifiedSession(req[p])
       THEN /\ req' = [req EXCEPT ![p] = Done(@, ReplyError("unverifiedSession"))]
            /\ UNCHANGED totp
       ELSE \E o \in DbCreateTotpToken(totp, req[p].uid, req[p].secret) :
              /\ totp' = o.table
              /\ req' = [req EXCEPT ![p] =
                           IF o.err = "none"
                             THEN [Called(@, "createTotpToken") EXCEPT !.pc = "emitMetrics"]
                             ELSE Rejects(Called(@, "createTotpToken"),
                                          "createTotpToken", o.err, "emitMetrics")]
  /\ UNCHANGED <<sessions, now, started>>
  /\ TotpUnchanged

(* /totp/create: emitMetrics *)
CreateEmitMetrics(p) ==
  /\ req[p].op = "create"
  /\ req[p].pc = "emitMetrics"
  /\ req' = [req EXCEPT ![p] =
               [@ EXCEPT !.pc = "createResponse",
                         !.events = @ \cup {"totpToken.created"}]]
  /\ UNCHANGED <<totp, sessions, now, started>>
  /\ TotpUnchanged

(* /totp/create: createResponse, then reply(response) *)
CreateResponse(p) ==
  /\ req[p].op = "create"
  /\ req[p].pc = "createResponse"
  /\ req' = [req EXCEPT ![p] =
               Done(@, [NoReply EXCEPT !.kind = "created", !.secret = req[p].secret])]
  /\ UNCHANGED <<totp, sessions, now, started>>
  /\ TotpUnchanged

(* /totp/destroy: deleteTotpToken, then reply({}) or reply(err) *)
DeleteTotpToken(p) ==
  /\ req[p].op = "destroy"
  /\ req[p].pc = "deleteTotpToken"
  /\ IF UnverifiedSession(req[p])
       THEN /\ req' = [req EXCEPT ![p] = Done(@, ReplyError("unverifiedSession"))]
            /\ UNCHANGED totp
       ELSE \E o \in DbDeleteTotpToken(totp, req[p].uid) :
              /\ totp' = o.table
              /\ req' = [req EXCEPT ![p] =
                           IF o.err = "none"
                             THEN Done(Called(@, "deleteTotpToken"),
                                       [NoReply EXCEPT !.kind = "empty"])
                             ELSE Done(Called(@, "deleteTotpToken"), ReplyError(o.err))]
  /\ UNCHANGED <<sessions, now, started>>
  /\ TotpUnchanged

(* mutant: the existence check does not look at the verified flag *)
IsAbandoned_Never(token) == FALSE

(* line 157: if (! token.verified) delete it *)
IsAbandoned(token) == ~ token.verified

(* /totp/exists: getTotpToken up to the answer of db.totpToken.  The guard *)
(* throws outside the promise chain, so reply is never called for it.      *)
ExistsGetTotpToken(p) ==
  /\ req[p].op = "exists"
  /\ req[p].pc = "getTotpToken"
  /\ IF UnverifiedSession(req[p])
       THEN req' = [req EXCEPT ![p] = Done(@, ThrowError("unverifiedSession"))]
       ELSE \E o \in DbTotpToken(totp, req[p].uid) :
              req' = [req EXCEPT ![p] =
                 CASE o.err = "none" /\ IsAbandoned(o.token) ->
                        [@ EXCEPT !.pc = "deleteTotpToken", !.found = TRUE,
                                  !.sharedSecret = o.token.sharedSecret,
                                  !.tokenVerified = o.token.verified]
                   [] o.err = "none" /\ ~ IsAbandoned(o.token) ->
                        Done([@ EXCEPT !.exists = TRUE, !.found = TRUE,
                                       !.sharedSecret = o.token.sharedSecret,
                                       !.tokenVerified = o.token.verified],
                             [NoReply EXCEPT !.kind = "exists", !.exists = TRUE])
                   [] o.err = "totpTokenNotFound" ->
                        Done(@, [NoReply EXCEPT !.kind = "exists", !.exists = FALSE])
                   [] OTHER -> Done(@, ReplyError(o.err))]
  /\ UNCHANGED <<totp, sessions, now, started>>
  /\ TotpUnchanged

(* /totp/exists: db.deleteTotpToken of the unverified token, exists = false *)
ExistsDeleteTotpToken(p) ==
  /\ req[p].op = "exists"
  /\ req[p].pc = "deleteTotpToken"
  /\ \E o \in DbDeleteTotpToken(totp, req[p].uid) :
       /\ totp' = o.table
       /\ req' = [req EXCEPT ![p] =
                    IF o.err = "none"
                      THEN Done(Called(@, "deleteTotpToken"),
                                [NoReply EXCEPT !.kind = "exists", !.exists = FALSE])
                      ELSE Done(Called(@, "deleteTotpToken"), ReplyError(o.err))]
  /\ UNCHANGED <<sessions, now, started>>
  /\ TotpUnchanged

(* /session/verify/totp: getTotpToken *)
VerifyGetTotpToken(p) ==
  /\ req[p].op = "verify"
  /\ req[p].pc = "getTotpToken"
  /\ \E o \in DbTotpToken(totp, req[p].uid) :
       req' = [req EXCEPT ![p] =
                 IF o.err = "none"
                   THEN [@ EXCEPT !.pc = "verifyTotpCode", !.found = TRUE,
                                  !.sharedSecret = o.token.sharedSecret,
                                  !.tokenVerified = o.token.verified]
                   ELSE Rejects(@, "totpToken", o.err, "verifyTotpCode")]
  /\ UNCHANGED <<totp, sessions, now, started>>
  /\ TotpUnchanged

(* /session/verify/totp: verifyTotpCode *)
VerifyTotpCode(p) ==
  /\ req[p].op = "verify"
  /\ req[p].pc = "verifyTotpCode"
  /\ req' = [req EXCEPT ![p] =
               [@ EXCEPT !.pc = "verifyTotpToken", !.checkedAt = now,
                         !.isValidCode = Check(req[p].code, req[p].sharedSecret, now)]]
  /\ UNCHANGED <<totp, sessions, now, started>>
  /\ TotpUnchanged

(* mutant: the update is sent for every unverified token and carries the *)
(* result of the check *)
TokenUpdates_WritesCheckResult(r) ==
  IF ~ r.tokenVerified
    THEN {[verified |-> r.isValidCode, enabled |-> r.isValidCode]}
    ELSE {}

(* mutant: a valid code never updates the token *)
TokenUpdates_Never(r) == {}

(* lines 221-226: the updates verifyTotpToken sends to the store *)
TokenUpdates(r) ==
  IF r.isValidCode /\ ~ r.tokenVerified THEN {VerifiedFlags} ELSE {}

(* /session/verify/totp: verifyTotpToken *)
VerifyTotpToken(p) ==
  /\ req[p].op = "verify"
  /\ req[p].pc = "verifyTotpToken"
  /\ IF TokenUpdates(req[p]) # {}
       THEN \E flags \in TokenUpdates(req[p]) :
            \E o \in DbUpdateTotpToken(totp, req[p].uid, flags) :
              /\ totp' = o.table
              /\ req' = [req EXCEPT ![p] =
                           IF o.err = "none"
                             THEN [Called(@, "updateTotpToken") EXCEPT !.pc = "verifySession"]
                             ELSE Rejects(Called(@, "updateTotpToken"),
                                          "updateTotpToken", o.err, "verifySession")]
       ELSE /\ req' = [req EXCEPT ![p].pc = "verifySession"]
            /\ UNCHANGED totp
  /\ UNCHANGED <<sessions, now, started>>
  /\ TotpUnchanged

(* mutant: the session is verified whatever the check said *)
MustVerifySession_AnyCode(r) == r.tokenVerificationId

(* mutant: the test of tokenVerificationId is inverted *)
MustVerifySession_Inverted(r) == r.isValidCode /\ ~ r.tokenVerificationId

(* line 231: if (isValidCode && sessionToken.tokenVerificationId) *)
MustVerifySession(r) == r.isValidCode /\ r.tokenVerificationId

(* line 232: the method handed to db.verifyTokensWithMethod *)
VerificationMethod == "totp-2fa"

(* /session/verify/totp: verifySession *)
VerifySession(p) ==
  /\ req[p].op = "verify"
  /\ req[p].pc = "verifySession"
  /\ IF MustVerifySession(req[p])
       THEN \E o \in DbVerifyTokensWithMethod(sessions, req[p].session, VerificationMethod) :
              /\ sessions' = o.table
              /\ req' = [req EXCEPT ![p] =
                           IF o.err = "none"
                             THEN [Called(@, "verifyTokensWithMethod") EXCEPT !.pc = "emitMetrics"]
                             ELSE Rejects(Called(@, "verifyTokensWithMethod"),
                                          "verifyTokensWithMethod", o.err, "emitMetrics")]
       ELSE /\ req' = [req EXCEPT ![p].pc = "emitMetrics"]
            /\ UNCHANGED sessions
  /\ UNCHANGED <<totp, now, started>>
  /\ TotpUnchanged

(* /session/verify/totp: emitMetrics, then reply({success: isValidCode}) *)
VerifyEmitMetrics(p) ==
  /\ req[p].op = "verify"
  /\ req[p].pc = "emitMetrics"
  /\ req' = [req EXCEPT ![p] =
               Done([@ EXCEPT !.events = @ \cup
                       {IF req[p].isValidCode THEN "totpToken.verified"
                                         ELSE "totpToken.unverified"}],
                    [NoReply EXCEPT !.kind = "success", !.success = req[p].isValidCode])]
  /\ UNCHANGED <<totp, sessions, now, started>>
  /\ TotpUnchanged

(* the reply was sent; the process is free for its next request *)
Finish(p) ==
  /\ req[p].pc = "done"
  /\ req' = [req EXCEPT ![p] = Idle]
  /\ UNCHANGED <<totp, sessions, now, started>>
  /\ TotpUnchanged

Tick ==
  /\ now < MaxTime
  /\ now' = now + 1
  /\ UNCHANGED <<totp, sessions, started, req>>
  /\ TotpUnchanged

Next == \/ \E p \in Procs : Start(p)
        \/ \E p \in Procs : CustomsCheck(p)
        \/ \E p \in Procs : CreateTotpToken(p)
        \/ \E p \in Procs : CreateEmitMetrics(p)
        \/ \E p \in Procs : CreateResponse(p)
        \/ \E p \in Procs : DeleteTotpToken(p)
        \/ \E p \in Procs : ExistsGetTotpToken(p)
        \/ \E p \in Procs : ExistsDeleteTotpToken(p)
        \/ \E p \in Procs : VerifyGetTotpToken(p)
        \/ \E p \in Procs : VerifyTotpCode(p)
        \/ \E p \in Procs : VerifyTotpToken(p)
        \/ \E p \in Procs : VerifySession(p)
        \/ \E p \in Procs : VerifyEmitMetrics(p)
        \/ \E p \in Procs : Finish(p)
        \/ Tick

Spec == Init /\ [][Next]_vars

(* Two /session/verify/totp requests of one uid in flight against a token  *)
(* that /totp/create left pending; the steps are those of Spec.            *)
InitRace ==
  /\ \E sec \in Secrets : totp = [u \in Uids |-> NewTotpRow(sec)]
  /\ sessions = [s \in Sessions |->
                   [uid |-> "u1", tokenVerificationId |-> (s = "s2"),
                    method |-> "none"]]
  /\ now = 0
  /\ started = Cardinality(Procs)
  /\ \E s \in [Procs -> Sessions], c \in [Procs -> Codes] :
       req = [p \in Procs |->
                [Idle EXCEPT !.op = "verify", !.pc = FirstPc("verify"),
                             !.session = s[p],
                             !.uid = sessions[s[p]].uid,
                             !.tokenVerificationId = sessions[s[p]].tokenVerificationId,
                             !.code = c[p]]]
  /\ tokens = <<>>
  /\ res = <<>>
  /\ pruned = {}
  /\ seen = {}
  /\ mint = <<>>

NextRace == \/ \E p \in Procs : CustomsCheck(p)
            \/ \E p \in Procs : VerifyGetTotpToken(p)
            \/ \E p \in Procs : VerifyTotpCode(p)
            \/ \E p \in Procs : VerifyTotpToken(p)
            \/ \E p \in Procs : VerifySession(p)
            \/ \E p \in Procs : VerifyEmitMetrics(p)
            \/ Tick

RaceSpec == InitRace /\ [][NextRace]_vars

----------------------------------------------------------------------------
(* The credential resolver: makeCredentialFn(dbGetFn) of the server.       *)

IdLen == 2
IdChars == {"a", "f", "g"}
HexChars == {"a", "f"}

(* the key identifiers a request may present: every string up to IdLen *)
Ids == UNION {[1 .. n -> IdChars] : n \in 0 .. IdLen}

(* HEX_STRING.test(id) *)
HexString(id) == Len(id) = IdLen /\ \A i \in 1 .. Len(id) : id[i] \in HexChars

HexIds == {id \in Ids : HexString(id)}

(* the ids the store may hold when the server starts *)
StoredIds == {[i \in 1 .. IdLen |-> "a"], [i \in 1 .. IdLen |-> "f"]}

TokenTypes ==
  {"sessionToken", "keyFetchToken", "accountResetToken", "passwordForgotToken",
   "passwordChangeToken"}

(* the strategies of the server, each bound to one accessor of the store *)
Accessors ==
  {"sessionToken", "keyFetchToken", "keyFetchTokenWithVerificationStatus",
   "accountResetToken", "passwordForgotToken", "passwordChangeToken"}

(* the kind of token an accessor reads *)
TypeOf(accessor) ==
  IF accessor = "keyFetchTokenWithVerificationStatus" THEN "keyFetchToken"
                                                      ELSE accessor

(* a token's expiry: 0 for a token that never expires *)
Expiries == 0 .. 2

TokenRows ==
  [present : {TRUE}, tokenTypeID : TokenTypes, uid : Uids, expiresAt : Expiries]

(* token.expired(Date.now()) *)
Expired(token, t) == token.expiresAt # 0 /\ t >= token.expiresAt

(* the outcomes of dbGetFn(id) for an accessor *)
DbGetToken(t, accessor, id) ==
  IF id \in DOMAIN t /\ t[id].present /\ t[id].tokenTypeID = TypeOf(accessor)
    THEN {[err |-> "none", token |-> t[id]],
          [err |-> "upstream", token |-> Absent]}
    ELSE {[err |-> "tokenNotFound", token |-> Absent],
          [err |-> "upstream", token |-> Absent]}

(* the outcomes of db.pruneSessionTokens(uid, [token with this id]) *)
DbPruneSessionTokens(t, uid, id) ==
  {[err |-> "none",
    table |-> IF t[id].present /\ t[id].uid = uid
                THEN [t EXCEPT ![id] = Absent] ELSE t],
   [err |-> "upstream", table |-> t]}

(* error.invalidToken('The authentication token has expired') *)
ExpiredError == "invalidTokenExpired"

NoCredentials == Absent

ResIdle ==
  [pc |-> "idle", accessor |-> "sessionToken", id |-> <<>>, token |-> Absent,
   checkedAt |-> -1, cb |-> <<>>, lookups |-> 0, prunes |-> 0,
   pruneErr |-> "none"]

(* mutant: the callback is invoked a second time with the same values *)
Callback_Twice(r, err, credentials) ==
  [r EXCEPT !.pc = "done",
            !.cb = @ \o <<[err |-> err, credentials |-> credentials],
                          [err |-> err, credentials |-> credentials]>>]

(* cb(err, credentials) is invoked *)
Callback(r, err, credentials) ==
  [r EXCEPT !.pc = "done", !.cb = Append(@, [err |-> err, credentials |-> credentials])]

(* mutant: every expired token is pruned, whatever its kind *)
OnToken_PruneAll(token, t) == IF Expired(token, t) THEN "prune" ELSE "accept"

(* mutant: expired tokens are accepted *)
OnToken_NoExpiry(token, t) == "accept"

(* mutant: an expired session token is rejected without a prune *)
OnToken_NoPrune(token, t) == IF Expired(token, t) THEN "reject" ELSE "accept"

(* lines 87-99: what the resolver does with the token the store returned: *)
(* prune it, reject it, or hand it to the callback                         *)
OnToken(token, t) ==
  IF Expired(token, t)
    THEN IF token.tokenTypeID = "sessionToken" THEN "prune" ELSE "reject"
    ELSE "accept"

(* mutant: the id is handed to the store untested *)
FirstStep_NoTest(id) == "dbGetFn"

(* lines 82-85: a malformed id is answered on the next tick, any other is  *)
(* looked up                                                               *)
FirstStep(id) == IF HexString(id) THEN "dbGetFn" ELSE "nextTick"

(* the callback values of the resolves rejected as malformed, missing or   *)
(* expired, once r has been answered                                       *)
SeenAfter(r) ==
  IF /\ r.pc = "done"
     /\ r.cb[Len(r.cb)].credentials = NoCredentials
     /\ r.cb[Len(r.cb)].err # "upstream"
    THEN seen \cup {r.cb[Len(r.cb)]}
    ELSE seen

ResolverUnchanged == UNCHANGED <<totp, sessions, started, req, mint>>

InitResolver ==
  /\ totp = [u \in Uids |-> Absent]
  /\ sessions = [s \in Sessions |->
                   [uid |-> "u1", tokenVerificationId |-> (s = "s2"),
                    method |-> "none"]]
  /\ now = 0
  /\ started = 0
  /\ req = [p \in Procs |-> Idle]
  /\ \E held \in [StoredIds -> TokenRows \cup {Absent}] :
       tokens = [id \in HexIds |-> IF id \in StoredIds THEN held[id] ELSE Absent]
  /\ res = ResIdle
  /\ pruned = {}
  /\ seen = {}
  /\ mint = <<>>

(* lines 80-84: the credential function is called; a malformed id is       *)
(* answered on the next tick without a store call                          *)
Resolve ==
  /\ res.pc = "idle"
  /\ \E accessor \in Accessors, id \in Ids :
       res' = [ResIdle EXCEPT !.accessor = accessor, !.id = id,
                              !.pc = FirstStep(id)]
  /\ UNCHANGED <<tokens, now, pruned, seen>>
  /\ ResolverUnchanged

(* line 83: process.nextTick(cb.bind(null, null, null)) *)
NextTickNotFound ==
  /\ res.pc = "nextTick"
  /\ res' = Callback(res, "none", NoCredentials)
  /\ seen' = SeenAfter(res')
  /\ UNCHANGED <<tokens, now, pruned>>
  /\ ResolverUnchanged

(* lines 85-100: dbGetFn(id) settles *)
DbGetFnSettles ==
  /\ res.pc = "dbGetFn"
  /\ \E o \in DbGetToken(tokens, res.accessor, res.id) :
       LET r == [res EXCEPT !.lookups = @ + 1, !.token = o.token,
                            !.checkedAt = IF o.err = "none" THEN now ELSE -1] IN
       res' = CASE o.err # "none" -> Callback(r, o.err, NoCredentials)
                [] o.err = "none" /\ OnToken(o.token, now) = "prune" ->
                     [r EXCEPT !.pc = "prune"]
                [] o.err = "none" /\ OnToken(o.token, now) = "reject" ->
                     Callback(r, ExpiredError, NoCredentials)
                [] OTHER -> Callback(r, "none", o.token)
  /\ seen' = SeenAfter(res')
  /\ UNCHANGED <<tokens, now, pruned>>
  /\ ResolverUnchanged

(* lines 91-93: db.pruneSessionTokens settles; a failure is swallowed *)
PruneSettles ==
  /\ res.pc = "prune"
  /\ \E o \in DbPruneSessionTokens(tokens, res.token.uid, res.id) :
       /\ tokens' = o.table
       /\ pruned' = IF o.err = "none" THEN pruned \cup {res.id} ELSE pruned
       /\ res' = Callback([res EXCEPT !.prunes = @ + 1, !.pruneErr = o.err],
                          ExpiredError, NoCredentials)
  /\ seen' = SeenAfter(res')
  /\ UNCHANGED now
  /\ ResolverUnchanged

(* the request has been answered; the next one may present its id *)
ResolveReturns ==
  /\ res.pc = "done"
  /\ res' = ResIdle
  /\ UNCHANGED <<tokens, now, pruned, seen>>
  /\ ResolverUnchanged

ResolverTick ==
  /\ now < MaxTime
  /\ now' = now + 1
  /\ UNCHANGED <<tokens, res, pruned, seen>>
  /\ ResolverUnchanged

NextResolver ==
  \/ Resolve
  \/ NextTickNotFound
  \/ DbGetFnSettles
  \/ PruneSettles
  \/ ResolveReturns
  \/ ResolverTick

ResolverSpec == InitResolver /\ [][NextResolver]_vars

(* One call of the credential function against any content of the store,  *)
(* when what it waits for does settle: the next tick comes, and the        *)
(* promises of dbGetFn and db.pruneSessionTokens resolve or reject.        *)
NextResolveOnce ==
  \/ Resolve
  \/ NextTickNotFound
  \/ DbGetFnSettles
  \/ PruneSettles
  \/ ResolverTick

ResolveOnceSpec ==
  /\ InitResolver
  /\ [][NextResolveOnce]_vars
  /\ WF_vars(NextTickNotFound)
  /\ WF_vars(DbGetFnSettles)
  /\ WF_vars(PruneSettles)

----------------------------------------------------------------------------
(* The assertion minter, lib/routes/utils/oauth-mint.js.                   *)
(* The clock of this part counts seconds: the lifetimes are the source's   *)
(* values without their factor 1000, so that they fit the checker's        *)
(* integers; sums and comparisons of instants are unchanged by the scale.  *)

CERT_LIFETIME == 3600 * 5

(* mutant: the assertion lives as long as the certificate *)
ASSERTION_LIFETIME_AsCert == CERT_LIFETIME

ASSERTION_LIFETIME == 3600 * 24 * 365 * 25

CLIENT_ID == "5882386c6d801776"

MintOps == {"getOAuthToken", "generateOAuthAssertion"}
Scopes == {"profile", "keys"}

(* the compact serialisations a signing can produce: no '~' inside *)
CertTexts == {<<"c">>, <<"c", ".", "c">>}
AssertionTexts == {<<"a">>, <<"a", ".", "a">>}

NoJwt == [text |-> <<>>, exp |-> 0, serial |-> 0]
NoRequest == [email |-> <<>>, duration |-> 0]
NoBody == [assertion |-> <<>>, client_id |-> "", response_type |-> "", scope |-> ""]
NoResult == [kind |-> "none", value |-> <<>>, err |-> "none"]

MintIdle ==
  [op |-> "none", pc |-> "idle", uid |-> "", scope |-> "",
   request |-> NoRequest, requestedAt |-> -1, signedAt |-> -1,
   cert |-> NoJwt, assertion |-> NoJwt, bundle |-> <<>>, body |-> NoBody,
   signerCalls |-> 0, localSigns |-> 0, posts |-> 0, result |-> NoResult]

(* `${sessionToken.uid.toString('hex')}@${config.domain}` *)
Email(uid) == <<uid, "@", "domain">>

(* the certificate request of generateOAuthAssertion *)
CertRequest(uid) == [email |-> Email(uid), duration |-> CERT_LIFETIME]

(* the Signer: a certificate over the request, expiring `duration` after   *)
(* the request was made                                                    *)
SignerSign(request, at, text, serial) ==
  [text |-> text, exp |-> at + request.duration, serial |-> serial]

(* secretKey.sign({exp: Date.now() + ASSERTION_LIFETIME, aud}) *)
SecretKeySign(at, text) ==
  [text |-> text, exp |-> at + ASSERTION_LIFETIME, serial |-> 0]

(* `${res.cert}~${assertion}` *)
Bundle(cert, assertion) == cert \o <<"~">> \o assertion

(* reading a bundle back: the halves before and after the first '~' *)
Tildes(b) == {i \in 1 .. Len(b) : b[i] = "~"}
FirstTilde(b) == CHOOSE i \in Tildes(b) : \A j \in Tildes(b) : i <= j
CertHalf(b) == SubSeq(b, 1, FirstTilde(b) - 1)
AssertionHalf(b) == SubSeq(b, FirstTilde(b) + 1, Len(b))

(* the body of the POST to /v1/authorization *)
PostBody(assertion, scope) ==
  [assertion |-> assertion, client_id |-> CLIENT_ID,
   response_type |-> "token", scope |-> scope]

MintResolved(r, value) ==
  [r EXCEPT !.pc = "done", !.result = [kind |-> "resolved", value |-> value, err |-> "none"]]

MintRejected(r, err) ==
  [r EXCEPT !.pc = "done", !.result = [kind |-> "rejected", value |-> <<>>, err |-> err]]

(* mutant: a failed POST is sent again *)
PostFails_Retry(r, err) == [r EXCEPT !.posts = @ + 1]

(* pool.post rejected: no handler in getOAuthToken, the call rejects *)
PostFails(r, err) == MintRejected(r, err)

MintUnchanged == UNCHANGED <<totp, sessions, started, req, tokens, res, pruned, seen>>

InitMint ==
  /\ totp = [u \in Uids |-> Absent]
  /\ sessions = [s \in Sessions |->
                   [uid |-> "u1", tokenVerificationId |-> (s = "s2"),
                    method |-> "none"]]
  /\ now = 0
  /\ started = 0
  /\ req = [p \in Procs |-> Idle]
  /\ tokens = <<>>
  /\ res = <<>>
  /\ pruned = {}
  /\ seen = {}
  /\ mint = [call |-> [p \in Procs |-> MintIdle], issued |-> 0]

(* getOAuthToken or generateOAuthAssertion is called: signer.sign(...) is  *)
(* requested at once                                                       *)
MintStart(p) ==
  /\ mint.call[p].pc = "idle"
  /\ \A q \in Procs : q < p => mint.call[q].pc # "idle"
  /\ \E op \in MintOps, s \in Sessions, scope \in Scopes :
       /\ (op = "generateOAuthAssertion") => scope = "profile"
       /\ mint' = [mint EXCEPT !.call[p] =
                     [MintIdle EXCEPT !.op = op, !.pc = "signer",
                                      !.uid = sessions[s].uid,
                                      !.scope = IF op = "getOAuthToken" THEN scope ELSE "",
                                      !.request = CertRequest(sessions[s].uid),
                                      !.requestedAt = now,
                                      !.signerCalls = 1]]
  /\ UNCHANGED now
  /\ MintUnchanged

(* signer.sign settles; on a certificate the local signing starts *)
SignerSettles(p) ==
  /\ mint.call[p].pc = "signer"
  /\ \/ \E text \in CertTexts :
          mint' = [mint EXCEPT
                     !.issued = @ + 1,
                     !.call[p] =
                       [@ EXCEPT !.pc = "secretKey",
                                 !.cert = SignerSign(mint.call[p].request,
                                                     mint.call[p].requestedAt,
                                                     text, mint.issued + 1),
                                 !.signedAt = now,
                                 !.localSigns = 1]]
     \/ mint' = [mint EXCEPT !.call[p] = MintRejected(@, "signer")]
  /\ UNCHANGED now
  /\ MintUnchanged

(* secretKey.sign settles; the bundle is built; getOAuthToken posts it *)
SecretKeySettles(p) ==
  /\ mint.call[p].pc = "secretKey"
  /\ \/ \E text \in AssertionTexts :
          LET c == mint.call[p]
              a == SecretKeySign(c.signedAt, text)
              b == Bundle(c.cert.text, a.text)
              r == [c EXCEPT !.assertion = a, !.bundle = b]
          IN mint' = [mint EXCEPT !.call[p] =
                        IF c.op = "generateOAuthAssertion"
                          THEN MintResolved(r, b)
                          ELSE [r EXCEPT !.pc = "post",
                                         !.body = PostBody(b, c.scope),
                                         !.posts = 1]]
     \/ mint' = [mint EXCEPT !.call[p] = MintRejected(@, "secretKey")]
  /\ UNCHANGED now
  /\ MintUnchanged

(* the POST settles: the payload of the endpoint, or its failure or the    *)
(* pool's timeout                                                          *)
PostSettles(p) ==
  /\ mint.call[p].pc = "post"
  /\ \/ mint' = [mint EXCEPT !.call[p] = MintResolved(@, <<"access_token">>)]
     \/ \E err \in {"oauth", "timeout"} :
          mint' = [mint EXCEPT !.call[p] = PostFails(mint.call[p], err)]
  /\ UNCHANGED now
  /\ MintUnchanged

MintTick ==
  /\ now < MaxTime
  /\ now' = now + 1
  /\ UNCHANGED mint
  /\ MintUnchanged

NextMint ==
  \/ \E p \in Procs : MintStart(p)
  \/ \E p \in Procs : SignerSettles(p)
  \/ \E p \in Procs : SecretKeySettles(p)
  \/ \E p \in Procs : PostSettles(p)
  \/ MintTick

MintSpec == InitMint /\ [][NextMint]_vars

----------------------------------------------------------------------------
(* Properties of the TOTP routes, checked under Spec *)

(* the step of process p: no other action changes req[p] *)
Stepped(p) == req'[p] # req[p]

(* a verify request whose code was checked and found wrong for the window  *)
(* of the instant of the check                                             *)
CheckedWrong(r) ==
  /\ r.op = "verify"
  /\ r.checkedAt >= 0
  /\ r.code # Generate(r.sharedSecret, r.checkedAt)

CheckedRight(r) ==
  /\ r.op = "verify"
  /\ r.checkedAt >= 0
  /\ r.code = Generate(r.sharedSecret, r.checkedAt)

(* C1: in every reachable state, a stored TotpToken that is enabled is     *)
(* verified.                                                               *)
C1_EnabledImpliesVerified ==
  \A u \in Uids : (totp[u].present /\ totp[u].enabled) => totp[u].verified

C1_Witness_EnabledToken ==
  \E u \in Uids : totp[u].present /\ totp[u].enabled /\ totp[u].verified

(* C2: the delete of an Exists request never removes a token whose         *)
(* verified flag is true at the moment of the delete.                      *)
C2_ExistsDeletesOnlyUnverified ==
  [][\A p \in Procs :
       (/\ Stepped(p)
        /\ req[p].op = "exists"
        /\ req[p].pc = "deleteTotpToken"
        /\ totp[req[p].uid].present
        /\ ~ totp'[req[p].uid].present)
       => ~ totp[req[p].uid].verified]_vars

(* C3: once a stored token is verified and enabled, no step changes either *)
(* flag back to false while a token stays in the store; the only change is *)
(* its removal.                                                            *)
C3_VerifiedIsOneWay ==
  [][\A u \in Uids :
       (totp[u].present /\ totp[u].verified /\ totp[u].enabled /\ totp'[u].present)
       => (totp'[u].verified /\ totp'[u].enabled)]_vars

(* a verified token was read as unverified by a verify request that then   *)
(* found its code wrong and has gone past verifyTotpToken                  *)
C3_Witness_WrongCodeOnVerifiedToken ==
  \E p \in Procs :
    /\ CheckedWrong(req[p])
    /\ ~ req[p].tokenVerified
    /\ req[p].pc = "done"
    /\ totp[req[p].uid].present
    /\ totp[req[p].uid].verified
    /\ totp[req[p].uid].enabled

(* C4: an Exists request that answers exists=true read a verified token;   *)
(* one that read an unverified token and answers, answers exists=false     *)
(* after calling deleteTotpToken, and its delete leaves no token behind.   *)
C4_UnverifiedNeverReported ==
  /\ [](\A p \in Procs :
          (req[p].op = "exists" /\ req[p].pc = "done" /\ req[p].reply.kind = "exists")
          => /\ req[p].reply.exists => (req[p].found /\ req[p].tokenVerified)
             /\ (req[p].found /\ ~ req[p].tokenVerified)
                  => (~ req[p].reply.exists /\ "deleteTotpToken" \in req[p].calls))
  /\ [][\A p \in Procs :
          (/\ Stepped(p)
           /\ req[p].op = "exists"
           /\ req[p].pc = "deleteTotpToken"
           /\ req'[p].reply.kind = "exists")
          => ~ totp'[req[p].uid].present]_vars

C4_Witness_AbandonedTokenReaped ==
  \E p \in Procs :
    /\ req[p].op = "exists"
    /\ req[p].pc = "done"
    /\ req[p].found
    /\ ~ req[p].tokenVerified
    /\ req[p].reply.kind = "exists"
    /\ ~ req[p].reply.exists
    /\ ~ totp[req[p].uid].present

(* C5: a verify request whose code is the code of the token's secret for   *)
(* the current window answers success=true; when it read the token as      *)
(* unverified its update leaves the token verified and enabled, otherwise   *)
(* it leaves the token as it is; an Exists request that reads a verified    *)
(* token answers exists=true and makes no store call that changes state.    *)
C5_CorrectCodeVerifies ==
  /\ [](\A p \in Procs :
          /\ (CheckedRight(req[p]) /\ req[p].pc = "done" /\ req[p].reply.kind # "error")
               => (req[p].reply.kind = "success" /\ req[p].reply.success)
          /\ (req[p].op = "exists" /\ req[p].found /\ req[p].tokenVerified)
               => /\ req[p].pc = "done"
                  /\ req[p].reply.kind = "exists"
                  /\ req[p].reply.exists
                  /\ req[p].calls = {})
  /\ [][\A p \in Procs :
          (/\ Stepped(p)
           /\ CheckedRight(req[p])
           /\ req[p].pc = "verifyTotpToken"
           /\ req'[p].pc = "verifySession")
          => IF req[p].tokenVerified
               THEN totp' = totp
               ELSE /\ totp'[req[p].uid].present
                    /\ totp'[req[p].uid].verified
                    /\ totp'[req[p].uid].enabled]_vars

(* Create, VerifyCode with the right code and Exists have run: the verify  *)
(* answered success=true, the Exists exists=true, the token is verified.   *)
C5_Witness_CreateVerifyExists ==
  \E p, q \in Procs :
    /\ CheckedRight(req[p])
    /\ req[p].pc = "done"
    /\ req[p].reply.success
    /\ "updateTotpToken" \in req[p].calls
    /\ req[q].op = "exists"
    /\ req[q].pc = "done"
    /\ req[q].reply.exists
    /\ totp[req[p].uid].present
    /\ totp[req[p].uid].verified
    /\ totp[req[p].uid].enabled

(* C6: a verify request whose code is wrong makes no store call that       *)
(* changes state, none of its steps changes the TOTP table or the session  *)
(* table, and it answers success=false, not an error.                      *)
C6_WrongCodeChangesNothing ==
  /\ [](\A p \in Procs :
          CheckedWrong(req[p])
          => /\ req[p].calls = {}
             /\ req[p].pc = "done"
                  => (req[p].reply.kind = "success" /\ ~ req[p].reply.success))
  /\ [][\A p \in Procs :
          (Stepped(p) /\ CheckedWrong(req[p]))
          => (totp' = totp /\ sessions' = sessions)]_vars

(* two wrong attempts have been answered against a token that exists *)
C6_Witness_RepeatedWrongCode ==
  /\ \A p \in Procs :
       /\ CheckedWrong(req[p])
       /\ req[p].pc = "done"
       /\ req[p].reply.kind = "success"
       /\ ~ req[p].reply.success
       /\ totp[req[p].uid].present
  /\ \E p \in Procs : req[p].tokenVerificationId

(* C7: a verify request that answers success=true on a session carrying a  *)
(* tokenVerificationId has called verifyTokensWithMethod and the store     *)
(* holds that session verified by 'totp-2fa'; a verify request on a        *)
(* session without tokenVerificationId never makes that call.              *)
C7_SessionVerifiedByTotp ==
  \A p \in Procs :
    req[p].op = "verify"
    => /\ (req[p].pc = "done" /\ req[p].reply.kind = "success"
           /\ req[p].reply.success /\ req[p].tokenVerificationId)
            => /\ "verifyTokensWithMethod" \in req[p].calls
               /\ ~ sessions[req[p].session].tokenVerificationId
               /\ sessions[req[p].session].method = "totp-2fa"
       /\ ~ req[p].tokenVerificationId
            => "verifyTokensWithMethod" \notin req[p].calls

C7_Witness_PendingSessionVerified ==
  \E p \in Procs :
    /\ req[p].op = "verify"
    /\ req[p].pc = "done"
    /\ req[p].tokenVerificationId
    /\ req[p].reply.success
    /\ sessions[req[p].session].method = "totp-2fa"

(* C8 as stated: every request of the four operations made on a session    *)
(* carrying a tokenVerificationId ends in the 'unverified session' error    *)
(* without a store call that changes state (a request that the rate        *)
(* limiter turned away or that a store read failed is not counted).         *)
C8_Original_AllFourGuarded ==
  \A p \in Procs :
    (/\ req[p].tokenVerificationId
     /\ req[p].op \in Ops
     /\ req[p].reply.errno \notin {"customs", "upstream", "totpTokenNotFound"})
    => /\ req[p].calls = {}
       /\ req[p].pc = "done" => req[p].reply.errno = "unverifiedSession"

(* C8 as amended: Create, Destroy and Exists on a session carrying a       *)
(* tokenVerificationId make no store call that changes state and end in    *)
(* the 'unverified session' error: replied by Create and Destroy once the  *)
(* customs check has passed, thrown out of the handler by Exists.          *)
C8_ThreeGuarded ==
  \A p \in Procs :
    (req[p].tokenVerificationId /\ req[p].op \in {"create", "destroy", "exists"})
    => /\ req[p].calls = {}
       /\ req[p].pc = "done"
            => \/ /\ req[p].op # "exists"
                  /\ req[p].reply = ReplyError("customs")
               \/ /\ req[p].op # "exists"
                  /\ req[p].reply = ReplyError("unverifiedSession")
               \/ /\ req[p].op = "exists"
                  /\ req[p].reply = ThrowError("unverifiedSession")

C8_Witness_GuardedCreate ==
  \E p, q \in Procs :
    /\ req[p].op = "create"
    /\ req[p].pc = "done"
    /\ req[p].tokenVerificationId
    /\ req[p].reply.errno = "unverifiedSession"
    /\ req[q].op = "exists"
    /\ req[q].pc = "done"
    /\ req[q].tokenVerificationId

(* C9: a Destroy request on a verified session is never answered with the  *)
(* store's not-found signal: deleting a token that is not there is a       *)
(* success for the caller.                                                 *)
C9_DestroyIdempotent ==
  \A p \in Procs :
    (req[p].op = "destroy" /\ req[p].pc = "done" /\ ~ req[p].tokenVerificationId)
    => req[p].reply.errno # "totpTokenNotFound"

----------------------------------------------------------------------------
(* Properties of the credential resolver, checked under ResolverSpec *)

(* the resolve in flight is answered and the callback received (err, none) *)
Rejected(err) ==
  /\ res.pc = "done"
  /\ res.cb = <<[err |-> err, credentials |-> NoCredentials]>>

(* the store answered the lookup with an expired session token *)
FoundExpiredSession ==
  /\ res.token # Absent
  /\ res.token.tokenTypeID = "sessionToken"
  /\ Expired(res.token, res.checkedAt)

(* C10 as stated: for every accessor, a well-formed id the store does not  *)
(* hold for that accessor's kind is answered with the not-found failure;   *)
(* an expired session token is answered with the expired failure and is    *)
(* no longer in the store when the answer is given.                        *)
C10_Original_ExpiredSessionIsPruned ==
  res.pc = "done" =>
    /\ (res.lookups = 1 /\ res.token = Absent /\ ~ Rejected("upstream"))
         => Rejected("tokenNotFound")
    /\ FoundExpiredSession
         => (Rejected(ExpiredError) /\ ~ tokens[res.id].present)

(* C10 as amended: the same, but the expired session token is gone only    *)
(* when the prune succeeded; a failed prune is swallowed and leaves it in   *)
(* the store.  A pruned id is never held by the store again, and a later    *)
(* resolve of it is answered with the not-found failure.                    *)
C10_ExpiredSessionPrunedBestEffort ==
  /\ \A id \in pruned : ~ tokens[id].present
  /\ (res.pc = "prune") => FoundExpiredSession
  /\ res.pc = "done" =>
       /\ (res.lookups = 1 /\ res.token = Absent /\ ~ Rejected("upstream"))
            => Rejected("tokenNotFound")
       /\ FoundExpiredSession
            => /\ Rejected(ExpiredError)
               /\ res.prunes = 1
               /\ res.pruneErr = "none" => (res.id \in pruned /\ ~ tokens[res.id].present)
               /\ res.pruneErr # "none" => tokens[res.id] = res.token
       /\ (res.id \in pruned /\ res.prunes = 0)
            => (res.token = Absent /\ (Rejected("tokenNotFound") \/ Rejected("upstream")))

(* a pruned id was resolved again and answered not-found *)
C10_Witness_PrunedThenNotFound ==
  /\ res.id \in pruned
  /\ res.prunes = 0
  /\ Rejected("tokenNotFound")

(* the id resolved is malformed / well-formed and not held for the         *)
(* accessor's kind / held and expired when the store answered              *)
Malformed == ~ HexString(res.id)
Missing == res.lookups = 1 /\ res.token = Absent /\ ~ Rejected("upstream")
FoundExpired == res.token # Absent /\ Expired(res.token, res.checkedAt)

C12_MalformedIdNoStoreCall ==
  /\ [](Malformed =>
          /\ res.lookups = 0
          /\ res.prunes = 0
          /\ res.pc = "done" => Rejected("none"))
  /\ [][(Malformed /\ res' # res) => (tokens' = tokens /\ pruned' = pruned)]_vars

C12_Witness_MalformedAnswered ==
  /\ Malformed
  /\ Len(res.id) = IdLen
  /\ res.accessor = "keyFetchTokenWithVerificationStatus"
  /\ Rejected("none")

(* C16: while the prune of an expired session token is pending the         *)
(* callback has not been invoked; once it settled the callback received    *)
(* the expired failure, whether the prune succeeded or failed; an expired   *)
(* token of another kind is rejected with the same failure and no prune.    *)
C16_PruneThenSameFailure ==
  /\ res.pc = "prune" => (res.cb = <<>> /\ FoundExpired /\ res.prunes = 0)
  /\ (res.pc = "done" /\ FoundExpired) =>
       /\ Rejected(ExpiredError)
       /\ res.prunes = (IF res.token.tokenTypeID = "sessionToken" THEN 1 ELSE 0)
  /\ res.pruneErr # "none" => (res.pc = "done" /\ Rejected(ExpiredError))

(* a prune failed and the callback still received the expired failure *)
C16_Witness_FailedPruneSwallowed ==
  /\ res.pruneErr = "upstream"
  /\ Rejected(ExpiredError)
  /\ tokens[res.id].present

----------------------------------------------------------------------------
(* Further properties of the TOTP handlers, checked under Spec *)

(* the request went past its customs check: its handler has one, the link  *)
(* has settled, and it did not reject                                      *)
CustomsPassed(r) ==
  /\ r.op \in {"create", "destroy", "verify"}
  /\ r.pc # "customs"
  /\ r.reply.errno # "customs"

(* C13: of the verify requests that present the same code for the same     *)
(* secret within one time window at most one is answered success=true,     *)
(* and a code of the window before or after the window of the check is     *)
(* found invalid.                                                          *)
C13_CodeAcceptedOncePerWindow ==
  /\ \A p, q \in Procs :
       (/\ p # q
        /\ req[p].op = "verify" /\ req[q].op = "verify"
        /\ req[p].pc = "done" /\ req[q].pc = "done"
        /\ req[p].found /\ req[q].found
        /\ req[p].sharedSecret = req[q].sharedSecret
        /\ req[p].code = req[q].code
        /\ req[p].checkedAt >= 0 /\ req[q].checkedAt >= 0
        /\ Counter(req[p].checkedAt) = Counter(req[q].checkedAt))
       => ~ (req[p].reply.success /\ req[q].reply.success)
  /\ \A p \in Procs :
       (/\ req[p].op = "verify"
        /\ req[p].checkedAt >= 0
        /\ \/ req[p].code = Generate(req[p].sharedSecret, req[p].checkedAt + Step)
           \/ req[p].code = Generate(req[p].sharedSecret, req[p].checkedAt - Step))
       => ~ req[p].isValidCode

(* C17: a request that has touched the Token Store (a token read that      *)
(* found a row, or a call that changes state) went past its customs check  *)
(* first, and a request the customs check turned away made no store call   *)
(* that changes state.                                                     *)
C17_CustomsBeforeStore ==
  \A p \in Procs :
    /\ (req[p].op \in Ops /\ (req[p].found \/ req[p].calls # {}))
         => CustomsPassed(req[p])
    /\ req[p].reply.errno = "customs"
         => (req[p].pc = "done" /\ req[p].calls = {})

(* C18: in Create and VerifyCode a store call that rejects ends the        *)
(* request with an error reply, no telemetry and no secret; a failed token *)
(* lookup is followed by no store call that changes state and a failed     *)
(* updateTotpToken by no verifyTokensWithMethod; the telemetry comes after *)
(* the store calls and the reply after the telemetry.                      *)
C18_FailureSkipsLaterSteps ==
  \A p \in Procs :
    req[p].op \in {"create", "verify"}
    => /\ req[p].failed # "none"
            => /\ req[p].pc = "done"
               /\ req[p].reply.kind = "error"
               /\ req[p].reply.secret = 0
               /\ req[p].events = {}
       /\ req[p].failed = "totpToken" => req[p].calls = {}
       /\ req[p].failed = "updateTotpToken"
            => "verifyTokensWithMethod" \notin req[p].calls
       /\ (req[p].op = "create" /\ req[p].events # {})
            => ("createTotpToken" \in req[p].calls /\ req[p].failed = "none")
       /\ req[p].reply.kind = "created" => req[p].events # {}
       /\ (req[p].op = "verify" /\ req[p].calls # {})
            => (req[p].found /\ req[p].checkedAt >= 0)
       /\ "verifyTokensWithMethod" \in req[p].calls
            => (req[p].tokenVerified \/ "updateTotpToken" \in req[p].calls)
       /\ (req[p].op = "verify" /\ req[p].events # {})
            => (req[p].found /\ req[p].checkedAt >= 0 /\ req[p].failed = "none")
       /\ req[p].reply.kind = "success" => req[p].events # {}

(* a right code on a pending session and a pending token: updateTotpToken  *)
(* rejected, the session stays pending, and a Create failed in the store   *)
C18_Witness_UpdateFailed ==
  \E p, q \in Procs :
    /\ CheckedRight(req[p])
    /\ req[p].tokenVerificationId
    /\ ~ req[p].tokenVerified
    /\ req[p].failed = "updateTotpToken"
    /\ req[p].pc = "done"
    /\ sessions[req[p].session].tokenVerificationId
    /\ req[q].op = "create"
    /\ req[q].failed = "createTotpToken"

(* C20: a step that changes a session is a step of a verify request on     *)
(* that session which read a token of the session's uid and whose code was *)
(* the code of that token's secret for the window of the check, and it     *)
(* leaves the session verified by 'totp-2fa'; a verify request that reads  *)
(* no token ends with the store's error and makes no store call that       *)
(* changes state.                                                          *)
C20_SessionVerifiedOnlyByTotp ==
  /\ [][\A s \in Sessions :
          sessions'[s] # sessions[s]
          => /\ \E p \in Procs :
                  /\ Stepped(p)
                  /\ req[p].session = s
                  /\ req[p].uid = sessions[s].uid
                  /\ req[p].found
                  /\ CheckedRight(req[p])
             /\ sessions'[s].method = "totp-2fa"
             /\ ~ sessions'[s].tokenVerificationId]_vars
  /\ [][\A p \in Procs :
          (/\ Stepped(p)
           /\ req[p].op = "verify"
           /\ req[p].pc = "getTotpToken"
           /\ ~ totp[req[p].uid].present)
          => /\ req'[p].pc = "done"
             /\ req'[p].reply.kind = "error"
             /\ req'[p].reply.errno \in {"totpTokenNotFound", "upstream"}]_vars
  /\ [](\A p \in Procs :
          (req[p].op = "verify" /\ req[p].checkedAt >= 0) => req[p].found)
  /\ [](\A p \in Procs :
          (req[p].op = "verify" /\ ~ req[p].found) => req[p].calls = {})

(* a session was verified by 'totp-2fa' and a verify request on a pending  *)
(* session found no token and was answered with the store's not-found      *)
C20_Witness_NoTokenNoVerification ==
  \E p \in Procs, s \in Sessions :
    /\ req[p].op = "verify"
    /\ req[p].pc = "done"
    /\ req[p].tokenVerificationId
    /\ req[p].reply = ReplyError("totpTokenNotFound")
    /\ sessions[s].method = "totp-2fa"

----------------------------------------------------------------------------
(* Properties of the assertion minter, checked under MintSpec *)

MintStepped(p) == mint'.call[p] # mint.call[p]

(* C14: a bundle, once built, reads back as a non-empty certificate half   *)
(* and a non-empty assertion half around one '~', they are the Signer's    *)
(* certificate and the local assertion, generateOAuthAssertion resolves    *)
(* to it, and the assertion's expiry (instant of local signing plus        *)
(* ASSERTION_LIFETIME) is greater than the certificate's (instant of the   *)
(* signer request plus CERT_LIFETIME).                                     *)
C14_BundleFormAndExpiry ==
  \A p \in Procs :
    LET c == mint.call[p] IN
      /\ c.bundle # <<>>
           => /\ Tildes(c.bundle) # {}
              /\ CertHalf(c.bundle) # <<>>
              /\ AssertionHalf(c.bundle) # <<>>
              /\ CertHalf(c.bundle) = c.cert.text
              /\ AssertionHalf(c.bundle) = c.assertion.text
              /\ c.requestedAt <= c.signedAt
              /\ c.cert.exp = c.requestedAt + CERT_LIFETIME
              /\ c.assertion.exp = c.signedAt + ASSERTION_LIFETIME
              /\ c.assertion.exp > c.cert.exp
      /\ (c.op = "generateOAuthAssertion" /\ c.result.kind = "resolved")
           => (c.bundle # <<>> /\ c.result.value = c.bundle)

(* a bundle whose certificate was requested at one instant and whose       *)
(* assertion was signed at a later one, resolved by generateOAuthAssertion *)
C14_Witness_BundleAcrossClock ==
  \E p \in Procs :
    /\ mint.call[p].op = "generateOAuthAssertion"
    /\ mint.call[p].result.kind = "resolved"
    /\ Len(mint.call[p].bundle) > 3
    /\ mint.call[p].requestedAt < mint.call[p].signedAt

(* C15: a call makes exactly one signer request and at most one POST; the  *)
(* POST is made by getOAuthToken only, after the certificate and the       *)
(* assertion exist, and carries their bundle; certificates of different    *)
(* calls differ; a failure of the Signer, of the local signing or of the   *)
(* POST is the rejection of the call, with no POST after a failure of the  *)
(* first two, and a settled call takes no further step.                    *)
C15_OneCertOnePostNoRetry ==
  /\ [](\A p \in Procs :
          LET c == mint.call[p] IN
            /\ c.op \in MintOps => c.signerCalls = 1
            /\ c.localSigns <= 1
            /\ c.posts <= 1
            /\ c.posts = 1
                 => /\ c.op = "getOAuthToken"
                    /\ c.cert # NoJwt
                    /\ c.assertion # NoJwt
                    /\ c.body = PostBody(Bundle(c.cert.text, c.assertion.text), c.scope)
            /\ c.result.kind = "rejected"
                 => /\ c.result.err = "signer"
                         => (c.pc = "done" /\ c.localSigns = 0 /\ c.posts = 0)
                    /\ c.result.err = "secretKey"
                         => (c.pc = "done" /\ c.cert # NoJwt /\ c.posts = 0)
                    /\ c.result.err \in {"oauth", "timeout"}
                         => (c.pc = "done" /\ c.posts = 1)
            /\ (c.op = "getOAuthToken" /\ c.result.kind = "resolved")
                 => (c.posts = 1 /\ c.result.value = <<"access_token">>)
            /\ \A q \in Procs :
                 (q # p /\ c.cert # NoJwt /\ mint.call[q].cert # NoJwt)
                 => c.cert.serial # mint.call[q].cert.serial)
  /\ [][\A p \in Procs :
          /\ mint.call[p].pc = "done" => ~ MintStepped(p)
          /\ (MintStepped(p) /\ mint.call[p].pc = "post")
               => mint'.call[p].pc = "done"]_vars

(* two getOAuthToken calls ran together: one failed at the POST by timeout *)
(* after its single POST, the other was answered with the token            *)
C15_Witness_TimeoutBesideSuccess ==
  \E p, q \in Procs :
    /\ mint.call[p].op = "getOAuthToken"
    /\ mint.call[p].result.err = "timeout"
    /\ mint.call[p].posts = 1
    /\ mint.call[q].op = "getOAuthToken"
    /\ mint.call[q].result.kind = "resolved"
    /\ mint.call[q].cert.serial # mint.call[p].cert.serial

----------------------------------------------------------------------------
(* Property of two racing verify requests, checked under RaceSpec *)

(* C19: when every one of the two verify requests has checked a right code *)
(* and has been answered without an error, the token is verified and       *)
(* enabled and every reply is success=true; a token that a step finds      *)
(* verified and enabled is left so by the step.                            *)
C19_NoLostUpdate ==
  /\ []((\A p \in Procs :
           /\ CheckedRight(req[p])
           /\ req[p].pc = "done"
           /\ req[p].reply.kind # "error")
        => /\ \A u \in Uids : totp[u].present /\ totp[u].verified /\ totp[u].enabled
           /\ \A p \in Procs : req[p].reply.kind = "success" /\ req[p].reply.success)
  /\ [][\A u \in Uids :
          (totp[u].verified /\ totp[u].enabled) => totp' = totp]_vars

(* both requests read the token as unverified before either wrote, both    *)
(* wrote, both were answered success=true                                  *)
C19_Witness_BothReadPending ==
  /\ \A p \in Procs :
       /\ CheckedRight(req[p])
       /\ ~ req[p].tokenVerified
       /\ "updateTotpToken" \in req[p].calls
       /\ req[p].pc = "done"
       /\ req[p].reply.success
  /\ \A u \in Uids : totp[u].verified /\ totp[u].enabled

----------------------------------------------------------------------------
(* Property of one resolve call, checked under ResolveOnceSpec *)

(* the resolve call waits for the next tick or for a store call *)
ResolvePending == res.pc \in {"nextTick", "dbGetFn", "prune"}

(* C21: the callback of a resolve call has been invoked once when the call *)
(* is answered and not at all before, no step invokes it again, and a      *)
(* call that waits for the next tick or for a store call is eventually     *)
(* answered.                                                               *)
C21_CallbackExactlyOnce ==
  /\ [](/\ Len(res.cb) <= 1
        /\ res.pc = "done" <=> Len(res.cb) = 1
        /\ ResolvePending => res.cb = <<>>)
  /\ [][res.pc = "done" => res'.cb = res.cb]_vars
  /\ ResolvePending ~> (res.pc = "done" /\ Len(res.cb) = 1)

(* the resolve of an expired session token has been answered, once, after *)
(* a prune that failed and left the token in the store, and the clock has  *)
(* moved on since the lookup                                               *)
C21_Witness_AnsweredAfterFailedPrune ==
  /\ res.pc = "done"
  /\ res.cb = <<[err |-> ExpiredError, credentials |-> NoCredentials]>>
  /\ res.lookups = 1
  /\ res.prunes = 1
  /\ res.pruneErr # "none"
  /\ tokens[res.id].present
  /\ now > res.checkedAt

====
